---------------------------- MODULE Spec2Model ----------------------------
(***************************************************************************)
(* svgPathToArray (src/svgPathToArray.js): the scanner/interpreter that    *)
(* turns an SVG path "d" string into an array of command records.          *)
(*                                                                         *)
(* The input string d is a sequence of one-character strings.  The cursor  *)
(* i is the 0-based JavaScript index, so the character under the cursor is *)
(* d[i+1].  One step of the model is one iteration of a command branch's   *)
(* argument-group loop (or one iteration of the parse loop for the         *)
(* branches without arguments).                                            *)
(*                                                                         *)
(* Numbers are IEEE 754 binary64 values, as JavaScript's: every operation  *)
(* rounds its exact result to the nearest value, ties to even.             *)
(***************************************************************************)
EXTENDS Integers, Sequences, FiniteSets, TLC

VARIABLES d, opts, groups, i, cx, cy, sx, sy, prevCmd, pcx, pcy, pqx, pqy,
          path, pc, err, iters

vars == <<d, opts, groups, i, cx, cy, sx, sy, prevCmd, pcx, pcy, pqx, pqy,
          path, pc, err, iters>>

---------------------------------------------------------------------------
(* Characters *)

LowerLetters == <<"a","b","c","d","e","f","g","h","i","j","k","l","m",
                  "n","o","p","q","r","s","t","u","v","w","x","y","z">>
UpperLetters == <<"A","B","C","D","E","F","G","H","I","J","K","L","M",
                  "N","O","P","Q","R","S","T","U","V","W","X","Y","Z">>
Digits == <<"0","1","2","3","4","5","6","7","8","9">>

SeqRange(s) == {s[j] : j \in 1..Len(s)}

IndexOf(s, ch) == CHOOSE j \in 1..Len(s) : s[j] = ch

LowerSet == SeqRange(LowerLetters)
UpperSet == SeqRange(UpperLetters)
LetterSet == LowerSet \cup UpperSet
DigitSet == SeqRange(Digits)

\* const isCmd = (ch) => /[a-zA-Z]/.test(ch)
isCmd(ch) == ch \in LetterSet

\* String.prototype.toUpperCase / toLowerCase on a one-character string
toUpperCase(ch) ==
  IF ch \in LowerSet THEN UpperLetters[IndexOf(LowerLetters, ch)]
  ELSE ch

toLowerCase(ch) ==
  IF ch \in UpperSet THEN LowerLetters[IndexOf(UpperLetters, ch)]
  ELSE ch

\* ch >= '0' && ch <= '9'
IsDigit(ch) == ch \in DigitSet

DigitVal(ch) == IndexOf(Digits, ch) - 1

\* c === 44 || c === 32 || c === 9 || c === 13 || c === 10
IsSeparator(ch) == ch \in {",", " ", "\t", "\r", "\n"}

IsSign(ch) == ch \in {"+", "-"}

---------------------------------------------------------------------------
(* Natural numbers of any size: sequences of limbs, least significant      *)
(* first, in base LimbBase, without a zero limb at the top.  << >> is 0.   *)

LimbBits == 15
LimbBase == 2^LimbBits

RECURSIVE BigFromInt(_)
BigFromInt(n) ==
  IF n = 0 THEN << >> ELSE <<n % LimbBase>> \o BigFromInt(n \div LimbBase)

RECURSIVE BigTrim(_)
BigTrim(a) ==
  IF Len(a) > 0 /\ a[Len(a)] = 0 THEN BigTrim(SubSeq(a, 1, Len(a) - 1)) ELSE a

Limb(a, j) == IF j <= Len(a) THEN a[j] ELSE 0

RECURSIVE BigAddFrom(_, _, _, _)
BigAddFrom(a, b, j, carry) ==
  IF j > Len(a) /\ j > Len(b) THEN (IF carry = 0 THEN << >> ELSE <<carry>>)
  ELSE <<(Limb(a, j) + Limb(b, j) + carry) % LimbBase>>
         \o BigAddFrom(a, b, j + 1, (Limb(a, j) + Limb(b, j) + carry) \div LimbBase)

BigAdd(a, b) == BigAddFrom(a, b, 1, 0)

RECURSIVE BigSubFrom(_, _, _, _)
BigSubFrom(a, b, j, borrow) ==
  IF j > Len(a) THEN << >>
  ELSE IF a[j] - Limb(b, j) - borrow < 0
    THEN <<a[j] - Limb(b, j) - borrow + LimbBase>> \o BigSubFrom(a, b, j + 1, 1)
    ELSE <<a[j] - Limb(b, j) - borrow>> \o BigSubFrom(a, b, j + 1, 0)

\* a - b, for a >= b
BigSub(a, b) == BigTrim(BigSubFrom(a, b, 1, 0))

RECURSIVE BigCmpAt(_, _, _)
BigCmpAt(a, b, j) ==
  IF j = 0 THEN 0
  ELSE IF a[j] > b[j] THEN 1
  ELSE IF a[j] < b[j] THEN -1
  ELSE BigCmpAt(a, b, j - 1)

\* 1, 0, -1 as a > b, a = b, a < b
BigCmp(a, b) ==
  IF Len(a) > Len(b) THEN 1
  ELSE IF Len(a) < Len(b) THEN -1
  ELSE BigCmpAt(a, b, Len(a))

RECURSIVE BigMulSmallFrom(_, _, _, _)
BigMulSmallFrom(a, c, j, carry) ==
  IF j > Len(a) THEN (IF carry = 0 THEN << >> ELSE <<carry>>)
  ELSE <<(a[j] * c + carry) % LimbBase>>
         \o BigMulSmallFrom(a, c, j + 1, (a[j] * c + carry) \div LimbBase)

\* a * c, for 0 <= c < LimbBase
BigMulSmall(a, c) == IF c = 0 THEN << >> ELSE BigMulSmallFrom(a, c, 1, 0)

RECURSIVE BigMulFrom(_, _, _)
BigMulFrom(a, b, j) ==
  IF j > Len(b) THEN << >>
  ELSE BigAdd(BigMulSmall(a, b[j]), <<0>> \o BigMulFrom(a, b, j + 1))

BigMul(a, b) == BigTrim(BigMulFrom(a, b, 1))

DivPut(rest, q) == [q |-> Append(rest.q, q), r |-> rest.r]

RECURSIVE BigDivSmallAt(_, _, _, _)
BigDivSmallAt(a, c, j, r) ==
  IF j = 0 THEN [q |-> << >>, r |-> r]
  ELSE DivPut(BigDivSmallAt(a, c, j - 1, (r * LimbBase + a[j]) % c),
              (r * LimbBase + a[j]) \div c)

DivTrim(res) == [q |-> BigTrim(res.q), r |-> res.r]

\* quotient q and remainder r of a by c, for 0 < c <= LimbBase
BigDivSmall(a, c) == DivTrim(BigDivSmallAt(a, c, Len(a), 0))

Zeros(n) == [j \in 1..n |-> 0]

\* a * 2^n
BigShl(a, n) ==
  IF n = 0 \/ Len(a) = 0 THEN a
  ELSE Zeros(n \div LimbBits) \o BigMulSmall(a, 2^(n % LimbBits))

\* a \div 2^n
BigShr(a, n) ==
  IF n = 0 THEN a
  ELSE IF n \div LimbBits >= Len(a) THEN << >>
  ELSE BigDivSmall(SubSeq(a, (n \div LimbBits) + 1, Len(a)), 2^(n % LimbBits)).q

\* bit n of a, bit 0 the least significant
BitAt(a, n) == (Limb(a, (n \div LimbBits) + 1) \div 2^(n % LimbBits)) % 2

\* the n low bits of a are all 0
LowBitsZero(a, n) ==
  /\ \A j \in 1..(n \div LimbBits) : Limb(a, j) = 0
  /\ Limb(a, (n \div LimbBits) + 1) % 2^(n % LimbBits) = 0

RECURSIVE SmallBitLen(_)
SmallBitLen(x) == IF x = 0 THEN 0 ELSE 1 + SmallBitLen(x \div 2)

\* the number of bits of a
BitLen(a) ==
  IF Len(a) = 0 THEN 0 ELSE LimbBits * (Len(a) - 1) + SmallBitLen(a[Len(a)])

\* the number of 0 bits below the lowest 1 bit of a # 0, counted from n
RECURSIVE TrailingZeros(_, _)
TrailingZeros(a, n) ==
  IF n % LimbBits = 0 /\ Limb(a, (n \div LimbBits) + 1) = 0
    THEN TrailingZeros(a, n + LimbBits)
  ELSE IF BitAt(a, n) = 1 THEN n
  ELSE TrailingZeros(a, n + 1)

RECURSIVE BigMulPow10(_, _)
BigMulPow10(a, k) ==
  IF k = 0 THEN a
  ELSE IF k >= 4 THEN BigMulPow10(BigMulSmall(a, 10000), k - 4)
  ELSE BigMulPow10(BigMulSmall(a, 10), k - 1)

DivPow10Step(res, k, sticky) == [q |-> res.q, k |-> k, sticky |-> sticky \/ res.r # 0]

\* a \div 10^k, and whether the division left a remainder
RECURSIVE BigDivPow10(_)
BigDivPow10(t) ==
  IF t.k = 0 THEN t
  ELSE IF t.k >= 4
    THEN BigDivPow10(DivPow10Step(BigDivSmall(t.q, 10000), t.k - 4, t.sticky))
  ELSE BigDivPow10(DivPow10Step(BigDivSmall(t.q, 10), t.k - 1, t.sticky))

---------------------------------------------------------------------------
(* JavaScript numbers: IEEE 754 binary64.  A finite number is s * m * 2^e   *)
(* with s the sign (1 or -1) and m an odd natural number below 2^53, so     *)
(* that a value has one record; zero is m = << >>, e = 0 with either sign.  *)
(* NaN, the infinities and null are records of the same shape.  Every       *)
(* operation computes the exact result and rounds it to the nearest number, *)
(* ties to even.                                                            *)

Finite(s, m, e) == [c |-> "num", s |-> s, m |-> m, e |-> e]
Infinity(s) == [c |-> "inf", s |-> s, m |-> << >>, e |-> 0]
NaN  == [c |-> "nan", s |-> 1, m |-> << >>, e |-> 0]
Null == [c |-> "null", s |-> 1, m |-> << >>, e |-> 0]

IsNaN(a) == a.c = "nan"

Max(a, b) == IF a >= b THEN a ELSE b
Min(a, b) == IF a <= b THEN a ELSE b

MantissaBits == 53
\* the exponent of the smallest positive number, 2^-1074, and of the
\* smallest power of two that is not a number, 2^1024
MinExp == -1074
MaxExp == 1024

CanonStrip(s, m, e, tz) == Finite(s, BigShr(m, tz), e + tz)

\* the record of s * m * 2^e, a value that is a number
Canon(s, m, e) ==
  IF Len(m) = 0 THEN Finite(s, << >>, 0)
  ELSE CanonStrip(s, m, e, TrailingZeros(m, 0))

Checked(s, m, e) == IF BitLen(m) + e > MaxExp THEN Infinity(s) ELSE Canon(s, m, e)

RoundUp(s, q, e, up) == Checked(s, IF up THEN BigAdd(q, <<1>>) ELSE q, e)

\* drop low bits of m: round to nearest, ties to even
RoundDrop(s, m, e, sticky, drop) ==
  IF drop <= 0 THEN Checked(s, m, e)
  ELSE RoundUp(s, BigShr(m, drop), e + drop,
               /\ BitAt(m, drop - 1) = 1
               /\ \/ sticky
                  \/ ~LowBitsZero(m, drop - 1)
                  \/ BitAt(m, drop) = 1)

\* the number nearest to s * (m + f) * 2^e, where 0 < f < 1 if sticky and
\* f = 0 otherwise
Round(s, m, e, sticky) ==
  RoundDrop(s, m, e, sticky, Max(BitLen(m) - MantissaBits, MinExp - e))

\* the number of the integer n
Num(n) == Canon(IF n < 0 THEN -1 ELSE 1, BigFromInt(IF n < 0 THEN -n ELSE n), 0)

\* ToNumber: null is +0
ToNumber(a) == IF a.c = "null" THEN Num(0) ELSE a

AddSigned(s1, m1, s2, m2, e) ==
  IF s1 = s2 THEN Round(s1, BigAdd(m1, m2), e, FALSE)
  ELSE IF BigCmp(m1, m2) = 0 THEN Finite(1, << >>, 0)
  ELSE IF BigCmp(m1, m2) > 0 THEN Round(s1, BigSub(m1, m2), e, FALSE)
  ELSE Round(s2, BigSub(m2, m1), e, FALSE)

AddAt(a, b, e) == AddSigned(a.s, BigShl(a.m, a.e - e), b.s, BigShl(b.m, b.e - e), e)

\* the exponent of the power of two just above a # 0
Top(a) == a.e + BitLen(a.m)

\* more than a whole mantissa and its rounding bits apart
FarApart == MantissaBits + 11

AddNumbers(a, b) ==
  IF IsNaN(a) \/ IsNaN(b) THEN NaN
  ELSE IF a.c = "inf" THEN (IF b.c = "inf" /\ b.s # a.s THEN NaN ELSE a)
  ELSE IF b.c = "inf" THEN b
  ELSE IF Len(a.m) = 0 /\ Len(b.m) = 0
    THEN Finite(IF a.s = -1 /\ b.s = -1 THEN -1 ELSE 1, << >>, 0)
  ELSE IF Len(b.m) = 0 \/ (Len(a.m) # 0 /\ Top(a) - Top(b) > FarApart) THEN a
  ELSE IF Len(a.m) = 0 \/ Top(b) - Top(a) > FarApart THEN b
  ELSE AddAt(a, b, Min(a.e, b.e))

\* a + b
NumAdd(a, b) == AddNumbers(ToNumber(a), ToNumber(b))

MulNumbers(a, b) ==
  IF IsNaN(a) \/ IsNaN(b) THEN NaN
  ELSE IF a.c = "inf" \/ b.c = "inf"
    THEN (IF (a.c = "num" /\ Len(a.m) = 0) \/ (b.c = "num" /\ Len(b.m) = 0)
            THEN NaN ELSE Infinity(a.s * b.s))
  ELSE Round(a.s * b.s, BigMul(a.m, b.m), a.e + b.e, FALSE)

\* a * b
NumMul(a, b) == MulNumbers(ToNumber(a), ToNumber(b))

NegNumber(a) == IF IsNaN(a) THEN NaN ELSE [a EXCEPT !.s = -a.s]

\* -a
NumNeg(a) == NegNumber(ToNumber(a))

\* a - b
NumSub(a, b) == NumAdd(a, NumNeg(b))

\* no less than the number of bits of 10^k: log2(10) < 3.322
Pow10Bits(k) == ((k * 3322) \div 1000) + 1

DivRound(s, t, sh) == Round(s, t.q, -sh, t.sticky)

DivScaled(s, N, k, sh) ==
  DivRound(s, BigDivPow10([q |-> BigShl(N, sh), k |-> k, sticky |-> FALSE]), sh)

\* the number nearest to s * N * 10^x: what a decimal literal with digits N
\* and exponent x denotes
FromDecimal(s, N, x) ==
  IF Len(N) = 0 THEN Finite(s, << >>, 0)
  ELSE IF x >= 0 THEN Round(s, BigMulPow10(N, x), 0, FALSE)
  ELSE DivScaled(s, N, -x, Max(0, Pow10Bits(-x) + MantissaBits + 2 - BitLen(N)))

\* the number nearest to n / 10^k
Decimal(n, k) ==
  FromDecimal(IF n < 0 THEN -1 ELSE 1, BigFromInt(IF n < 0 THEN -n ELSE n), -k)

---------------------------------------------------------------------------
(* parseFloat: the longest prefix of str that is a decimal literal         *)
(*   [sign] (digits [. [digits]] | . digits) [(e|E) [sign] digits]         *)

RECURSIVE DigitsEnd(_, _)
DigitsEnd(s, j) ==
  IF j <= Len(s) /\ IsDigit(s[j]) THEN DigitsEnd(s, j + 1) ELSE j

\* the value of the digits s[a], ..., s[b-1]
RECURSIVE DigitsValue(_, _, _)
DigitsValue(s, a, b) ==
  IF b <= a THEN 0 ELSE 10 * DigitsValue(s, a, b - 1) + DigitVal(s[b - 1])

\* the natural number of the digits s[a], ..., s[b-1] appended to acc
RECURSIVE DigitsBig(_, _, _, _)
DigitsBig(s, a, b, acc) ==
  IF a >= b THEN acc
  ELSE IF b - a >= 4
    THEN DigitsBig(s, a + 4, b,
                   BigAdd(BigMulSmall(acc, 10000), BigFromInt(DigitsValue(s, a, a + 4))))
  ELSE DigitsBig(s, a + 1, b,
                 BigAdd(BigMulSmall(acc, 10), BigFromInt(DigitVal(s[a]))))

\* sign s[1], integer digits str[p0..p1-1], fraction digits str[f0..p2-1],
\* exponent ex
pfResult(str, p0, p1, f0, p2, ex) ==
  FromDecimal(IF str[1] = "-" THEN -1 ELSE 1,
              DigitsBig(str, f0, p2, DigitsBig(str, p0, p1, << >>)),
              ex - (p2 - f0))

\* the exponent's digits start at p3; an exponent marker without digits is
\* not part of the literal
pfExpDigits(str, p0, p1, f0, p2, p3) ==
  pfResult(str, p0, p1, f0, p2,
           IF DigitsEnd(str, p3) > p3
             THEN (IF str[p2 + 1] = "-" THEN -1 ELSE 1)
                    * DigitsValue(str, p3, DigitsEnd(str, p3))
             ELSE 0)

\* no digit before or after the decimal point: NaN
pfExponent(str, p0, p1, f0, p2) ==
  IF (p1 - p0) + (p2 - f0) = 0 THEN NaN
  ELSE IF p2 <= Len(str) /\ str[p2] \in {"e", "E"}
    THEN pfExpDigits(str, p0, p1, f0, p2,
                     IF p2 + 1 <= Len(str) /\ IsSign(str[p2 + 1]) THEN p2 + 2 ELSE p2 + 1)
  ELSE pfResult(str, p0, p1, f0, p2, 0)

pfFraction(str, p0, p1, f0) == pfExponent(str, p0, p1, f0, DigitsEnd(str, f0))

pfInteger(str, p0, p1) ==
  pfFraction(str, p0, p1, IF p1 <= Len(str) /\ str[p1] = "." THEN p1 + 1 ELSE p1)

pfSign(str, p0) == pfInteger(str, p0, DigitsEnd(str, p0))

parseFloat(str) == pfSign(str, IF Len(str) >= 1 /\ IsSign(str[1]) THEN 2 ELSE 1)

---------------------------------------------------------------------------
(* Lexical scanner; s is the input string, j a 0-based cursor *)

\* skipSpaces: the cursor after the run of separators at j
RECURSIVE skipSpaces(_, _)
skipSpaces(s, j) ==
  IF j < Len(s) /\ IsSeparator(s[j + 1]) THEN skipSpaces(s, j + 1) ELSE j

\* a variant of the loop of readNumber that does not keep hasDot: every '.'
\* is taken
RECURSIVE numberEndManyDots(_, _, _, _)
numberEndManyDots(s, j, hasDot, hasExp) ==
  IF j >= Len(s) THEN j
  ELSE IF IsDigit(s[j + 1]) \/ s[j + 1] = "."
    THEN numberEndManyDots(s, j + 1, hasDot, hasExp)
  ELSE IF s[j + 1] \in {"e", "E"} /\ ~hasExp
    THEN numberEndManyDots(s, IF j + 1 < Len(s) /\ IsSign(s[j + 2]) THEN j + 2
                              ELSE j + 1,
                           hasDot, TRUE)
  ELSE j

\* the while loop of readNumber: digits, one '.', one exponent marker with
\* an optional sign
RECURSIVE numberEnd(_, _, _, _)
numberEnd(s, j, hasDot, hasExp) ==
  IF j >= Len(s) THEN j
  ELSE LET ch == s[j + 1] IN
       IF IsDigit(ch) THEN numberEnd(s, j + 1, hasDot, hasExp)
       ELSE IF ch = "." /\ ~hasDot THEN numberEnd(s, j + 1, TRUE, hasExp)
       ELSE IF ch \in {"e", "E"} /\ ~hasExp
         THEN numberEnd(s, IF j + 1 < Len(s) /\ IsSign(s[j + 2]) THEN j + 2 ELSE j + 1,
                        hasDot, TRUE)
       ELSE j

\* const str = d.slice(start, i); if (!str.length) throw ...
\* ok = FALSE is the throw 'number expected at i'
readNumberStr(s, start, end) ==
  [ok |-> end # start, i |-> end, str |-> SubSeq(s, start + 1, end)]

\* if (d[i] === '+' || d[i] === '-') i++; while (i < len) ...; slice; throw
readNumberScan(s, start) ==
  readNumberStr(s, start,
                numberEnd(s, IF start < Len(s) /\ IsSign(s[start + 1]) THEN start + 1
                             ELSE start,
                          FALSE, FALSE))

\* return parseFloat(str)
readNumberVal(r) ==
  [ok |-> r.ok, i |-> r.i, val |-> IF r.ok THEN parseFloat(r.str) ELSE NaN,
   str |-> r.str]

\* readNumber from the cursor start, the separators skipped
readNumberAt(s, start) == readNumberVal(readNumberScan(s, start))

\* readNumber at cursor j
readNumber(s, j) == readNumberAt(s, skipSpaces(s, j))

\* r: the numbers read so far; n: the result of the next readNumber
pushNumber(r, n) ==
  [ok |-> n.ok, i |-> n.i, vals |-> IF n.ok THEN Append(r.vals, n.val) ELSE r.vals]

\* k more calls of readNumber in a row; stops at the first throw
RECURSIVE readMore(_, _, _)
readMore(s, r, k) ==
  IF k = 0 \/ ~r.ok THEN r
  ELSE readMore(s, pushNumber(r, readNumber(s, r.i)), k - 1)

\* const a = readNumber(), b = readNumber(), ...: k numbers from cursor j
readNumbers(s, j, k) == readMore(s, [ok |-> TRUE, i |-> j, vals |-> << >>], k)

readCommandAt(s, k, prev) ==
  IF k >= Len(s) THEN [cmd |-> "", i |-> k]
  ELSE IF isCmd(s[k + 1]) THEN [cmd |-> s[k + 1], i |-> k + 1]
  ELSE [cmd |-> prev, i |-> k]

\* readCommand at cursor j with previous command prev ("" is null)
readCommand(s, j, prev) == readCommandAt(s, skipSpaces(s, j), prev)

\* a variant of reflect with the two points swapped
reflectSwapped(x1, y1, x2, y2) ==
  <<NumSub(NumMul(Num(2), x1), x2), NumSub(NumMul(Num(2), y1), y2)>>

\* const reflect = (x1, y1, x2, y2) => [2 * x2 - x1, 2 * y2 - y1]
reflect(x1, y1, x2, y2) ==
  <<NumSub(NumMul(Num(2), x2), x1), NumSub(NumMul(Num(2), y2), y1)>>

---------------------------------------------------------------------------
(* Command records (src/pathcmds.js) *)

cmdMove(x, y) == [t |-> "M", x |-> x, y |-> y]
cmdLine(x, y) == [t |-> "L", x |-> x, y |-> y]
cmdQuad(x, y, qx, qy) == [t |-> "Q", x |-> x, y |-> y, cx |-> qx, cy |-> qy]
cmdCurve(x, y, x1, y1, x2, y2) ==
  [t |-> "C", x |-> x, y |-> y, cx |-> x1, cy |-> y1, cx2 |-> x2, cy2 |-> y2]

---------------------------------------------------------------------------
(* The transform, applied when a record is built *)

Identity ==
  [scaleX |-> Num(1), scaleY |-> Num(1), flipY |-> FALSE,
   offsetX |-> Num(0), offsetY |-> Num(0)]

\* const TX = (x) => offsetX + scaleX * x
TX(o, x) == NumAdd(o.offsetX, NumMul(o.scaleX, x))

\* const TY = (y) => offsetY + (flipY ? -scaleY * y : scaleY * y)
TY(o, y) ==
  NumAdd(o.offsetY,
         IF o.flipY THEN NumMul(NumNeg(o.scaleY), y) ELSE NumMul(o.scaleY, y))

---------------------------------------------------------------------------
(* Parser state as a record, and the steps of the parse loop on it.        *)
(* pc: "cmd"  at the top of the parse loop, before readCommand             *)
(*     "grp"  inside a branch's argument-group loop, before the next group *)
(*     "done" after return path; "error" after a throw                     *)

State ==
  [d |-> d, opts |-> opts, i |-> i, cx |-> cx, cy |-> cy, sx |-> sx, sy |-> sy,
   prevCmd |-> prevCmd, pcx |-> pcx, pcy |-> pcy, pqx |-> pqx, pqy |-> pqy,
   path |-> path, pc |-> pc, err |-> err, iters |-> iters]

\* the state after the declarations of lines 30-39
Start(s, o) ==
  [d |-> s, opts |-> o, i |-> 0, cx |-> Num(0), cy |-> Num(0),
   sx |-> Num(0), sy |-> Num(0), prevCmd |-> "",
   pcx |-> Null, pcy |-> Null, pqx |-> Null, pqy |-> Null,
   path |-> << >>, pc |-> "cmd", err |-> "none", iters |-> 0]

\* the command this step runs under: read by readCommand at the top of the
\* parse loop, or the command of the branch whose group loop is running
Entry(s) ==
  IF s.pc = "cmd" THEN readCommand(s.d, s.i, s.prevCmd)
  ELSE [cmd |-> s.prevCmd, i |-> s.i]

\* const isRel = cmd === cmd.toLowerCase(); const C = cmd.toUpperCase()
isRel(cmd) == cmd = toLowerCase(cmd)
UpperC(s) == toUpperCase(Entry(s).cmd)

TakenAs(s, e) ==
  [s EXCEPT !.prevCmd = e.cmd, !.i = e.i,
            !.iters = IF s.pc = "cmd" THEN @ + 1 ELSE @]

\* the state once the command is taken: prevCmd = cmd, cursor after the letter
Taken(s) == TakenAs(s, Entry(s))

\* a variant of the throw that leaves the cursor at the start of the input
ThrowRewound(s, j, e) == [s EXCEPT !.i = 0, !.pc = "error", !.err = e]

Throw(s, j, e) == [s EXCEPT !.i = j, !.pc = "error", !.err = e]

NumberExpected == "number expected"

\* a variant of Resolve that takes every argument as absolute
ResolveAsAbsolute(cmd, base, v) == v

\* isRel ? base + v : v
Resolve(cmd, base, v) == IF isRel(cmd) THEN NumAdd(base, v) ELSE v

moveToAbs(s, x, y) ==
  [s EXCEPT !.path = Append(@, cmdMove(TX(s.opts, x), TY(s.opts, y))),
            !.cx = x, !.cy = y, !.sx = x, !.sy = y,
            !.pcx = Null, !.pcy = Null, !.pqx = Null, !.pqy = Null]

\* a variant of lineToAbs that keeps the transformed point as current point
lineToAbsTransformed(s, x, y) ==
  [s EXCEPT !.path = Append(@, cmdLine(TX(s.opts, x), TY(s.opts, y))),
            !.cx = TX(s.opts, x), !.cy = TY(s.opts, y),
            !.pcx = Null, !.pcy = Null, !.pqx = Null, !.pqy = Null]

\* a variant of lineToAbs that pushes a Move record
lineToAbsAsMove(s, x, y) ==
  [s EXCEPT !.path = Append(@, cmdMove(TX(s.opts, x), TY(s.opts, y))),
            !.cx = x, !.cy = y,
            !.pcx = Null, !.pcy = Null, !.pqx = Null, !.pqy = Null]

\* a variant of lineToAbs that also moves the subpath start, as moveToAbs does
lineToAbsSettingStart(s, x, y) ==
  [s EXCEPT !.path = Append(@, cmdLine(TX(s.opts, x), TY(s.opts, y))),
            !.cx = x, !.cy = y, !.sx = x, !.sy = y,
            !.pcx = Null, !.pcy = Null, !.pqx = Null, !.pqy = Null]

lineToAbs(s, x, y) ==
  [s EXCEPT !.path = Append(@, cmdLine(TX(s.opts, x), TY(s.opts, y))),
            !.cx = x, !.cy = y,
            !.pcx = Null, !.pcy = Null, !.pqx = Null, !.pqy = Null]

\* a variant of the bookkeeping of C and S that keeps the second control
\* point as current point
curveToKeepsControl(s, X1, Y1, X2, Y2, X, Y) ==
  [s EXCEPT !.path = Append(@, cmdCurve(TX(s.opts, X), TY(s.opts, Y),
                                        TX(s.opts, X1), TY(s.opts, Y1),
                                        TX(s.opts, X2), TY(s.opts, Y2))),
            !.pcx = X2, !.pcy = Y2, !.pqx = Null, !.pqy = Null,
            !.cx = X2, !.cy = Y2]

\* path.push(cmdCurve(...)); pcx = X2; pcy = Y2; pqx = pqy = null; cx = X; cy = Y
curveTo(s, X1, Y1, X2, Y2, X, Y) ==
  [s EXCEPT !.path = Append(@, cmdCurve(TX(s.opts, X), TY(s.opts, Y),
                                        TX(s.opts, X1), TY(s.opts, Y1),
                                        TX(s.opts, X2), TY(s.opts, Y2))),
            !.pcx = X2, !.pcy = Y2, !.pqx = Null, !.pqy = Null,
            !.cx = X, !.cy = Y]

\* path.push(cmdQuad(...)); pqx = QX; pqy = QY; pcx = pcy = null; cx = X; cy = Y
quadTo(s, QX, QY, X, Y) ==
  [s EXCEPT !.path = Append(@, cmdQuad(TX(s.opts, X), TY(s.opts, Y),
                                       TX(s.opts, QX), TY(s.opts, QY))),
            !.pqx = QX, !.pqy = QY, !.pcx = Null, !.pcy = Null,
            !.cx = X, !.cy = Y]

EndGroupAt(s, k) ==
  [s EXCEPT !.i = k,
            !.pc = IF k >= Len(s.d) \/ isCmd(s.d[k + 1]) THEN "cmd" ELSE "grp"]

\* skipSpaces(); if (i >= len || isCmd(d[i])) break;  -- else another group
EndGroup(s, j) == EndGroupAt(s, skipSpaces(s.d, j))

\* if (!cmd) break; ... return path
Return(s) == [s EXCEPT !.i = Entry(s).i, !.pc = "done", !.iters = @ + 1]

\* In the branches below t is the state once the command is taken and r the
\* result of the branch's readNumber calls.

\* moveToAbs(X, Y) of the first pair of M
GroupM(t, r) ==
  IF ~r.ok THEN Throw(t, r.i, NumberExpected)
  ELSE EndGroup(moveToAbs(t, Resolve(t.prevCmd, t.cx, r.vals[1]),
                             Resolve(t.prevCmd, t.cy, r.vals[2])), r.i)

\* C === 'M', first pair (lines 108-115)
BranchM(s) == GroupM(Taken(s), readNumbers(s.d, Entry(s).i, 2))

\* lineToAbs(X, Y) of L and of the later pairs of M
GroupL(t, r) ==
  IF ~r.ok THEN Throw(t, r.i, NumberExpected)
  ELSE EndGroup(lineToAbs(t, Resolve(t.prevCmd, t.cx, r.vals[1]),
                             Resolve(t.prevCmd, t.cy, r.vals[2])), r.i)

\* C === 'M', implicit line pairs (lines 116-122); C === 'L' (lines 126-136)
BranchL(s) == GroupL(Taken(s), readNumbers(s.d, Entry(s).i, 2))

\* a variant of the H group that takes the omitted y as 0
GroupHZeroY(t, r) ==
  IF ~r.ok THEN Throw(t, r.i, NumberExpected)
  ELSE EndGroup(lineToAbs(t, Resolve(t.prevCmd, t.cx, r.vals[1]), Num(0)), r.i)

GroupH(t, r) ==
  IF ~r.ok THEN Throw(t, r.i, NumberExpected)
  ELSE EndGroup(lineToAbs(t, Resolve(t.prevCmd, t.cx, r.vals[1]), t.cy), r.i)

\* C === 'H' (lines 138-147)
BranchH(s) == GroupH(Taken(s), readNumbers(s.d, Entry(s).i, 1))

GroupV(t, r) ==
  IF ~r.ok THEN Throw(t, r.i, NumberExpected)
  ELSE EndGroup(lineToAbs(t, t.cx, Resolve(t.prevCmd, t.cy, r.vals[1])), r.i)

\* C === 'V' (lines 149-158)
BranchV(s) == GroupV(Taken(s), readNumbers(s.d, Entry(s).i, 1))

GroupC(t, r) ==
  IF ~r.ok THEN Throw(t, r.i, NumberExpected)
  ELSE EndGroup(curveTo(t, Resolve(t.prevCmd, t.cx, r.vals[1]),
                           Resolve(t.prevCmd, t.cy, r.vals[2]),
                           Resolve(t.prevCmd, t.cx, r.vals[3]),
                           Resolve(t.prevCmd, t.cy, r.vals[4]),
                           Resolve(t.prevCmd, t.cx, r.vals[5]),
                           Resolve(t.prevCmd, t.cy, r.vals[6])), r.i)

\* C === 'C' (lines 160-182)
BranchC(s) == GroupC(Taken(s), readNumbers(s.d, Entry(s).i, 6))

\* prevCmd && (prevCmd.toUpperCase() === 'C' || prevCmd.toUpperCase() === 'S')
\*   && pcx !== null      (line 194; prevCmd was assigned on line 106)
CubicAnchorUsed(t) ==
  /\ t.prevCmd # ""
  /\ toUpperCase(t.prevCmd) \in {"C", "S"}
  /\ t.pcx # Null

\* let X1, Y1 (lines 193-198)
ImpliedCubic(t) ==
  IF CubicAnchorUsed(t) THEN reflect(t.pcx, t.pcy, t.cx, t.cy) ELSE <<t.cx, t.cy>>

GroupS(t, r, P1) ==
  IF ~r.ok THEN Throw(t, r.i, NumberExpected)
  ELSE EndGroup(curveTo(t, P1[1], P1[2],
                           Resolve(t.prevCmd, t.cx, r.vals[1]),
                           Resolve(t.prevCmd, t.cy, r.vals[2]),
                           Resolve(t.prevCmd, t.cx, r.vals[3]),
                           Resolve(t.prevCmd, t.cy, r.vals[4])), r.i)

\* C === 'S' (lines 184-211)
BranchS(s) ==
  GroupS(Taken(s), readNumbers(s.d, Entry(s).i, 4), ImpliedCubic(Taken(s)))

GroupQ(t, r) ==
  IF ~r.ok THEN Throw(t, r.i, NumberExpected)
  ELSE EndGroup(quadTo(t, Resolve(t.prevCmd, t.cx, r.vals[1]),
                          Resolve(t.prevCmd, t.cy, r.vals[2]),
                          Resolve(t.prevCmd, t.cx, r.vals[3]),
                          Resolve(t.prevCmd, t.cy, r.vals[4])), r.i)

\* C === 'Q' (lines 213-232)
BranchQ(s) == GroupQ(Taken(s), readNumbers(s.d, Entry(s).i, 4))

\* line 241, as line 194
QuadAnchorUsed(t) ==
  /\ t.prevCmd # ""
  /\ toUpperCase(t.prevCmd) \in {"Q", "T"}
  /\ t.pqx # Null

\* let QX, QY (lines 240-245)
ImpliedQuad(t) ==
  IF QuadAnchorUsed(t) THEN reflect(t.pqx, t.pqy, t.cx, t.cy) ELSE <<t.cx, t.cy>>

GroupT(t, r, Q1) ==
  IF ~r.ok THEN Throw(t, r.i, NumberExpected)
  ELSE EndGroup(quadTo(t, Q1[1], Q1[2],
                          Resolve(t.prevCmd, t.cx, r.vals[1]),
                          Resolve(t.prevCmd, t.cy, r.vals[2])), r.i)

\* C === 'T' (lines 234-258)
BranchT(s) ==
  GroupT(Taken(s), readNumbers(s.d, Entry(s).i, 2), ImpliedQuad(Taken(s)))

CloseIsNotAFunction == "TypeError: path.close is not a function"

\* C === 'Z' (lines 260-265): path is an Array (line 30) and an Array has no
\* method close, so path.close() throws a TypeError before line 262 runs
BranchZ(s) == Throw(Taken(s), Entry(s).i, CloseIsNotAFunction)

ArcNotSupported == "Arc command (A/a) is not supported. Pre-normalize arcs to Beziers."

\* C === 'A' (lines 267-269)
BranchA(s) == Throw(Taken(s), Entry(s).i, ArcNotSupported)

\* a variant of the fall-through that clears the reflection anchors
FallThroughResets(s) ==
  [Taken(s) EXCEPT !.pcx = Null, !.pcy = Null, !.pqx = Null, !.pqy = Null]

\* any other letter: no branch is taken and the parse loop goes round
FallThrough(s) == Taken(s)

---------------------------------------------------------------------------
(* Inputs.  Three families:                                                  *)
(*  - every string of at most MaxLen characters over RawAlphabet;          *)
(*  - paths written as at most MaxGroups argument groups, each a command   *)
(*    letter (or none: an implicit repetition) followed by as many integer *)
(*    arguments as the command in force takes, printed in decimal and      *)
(*    separated by commas, the groups separated by spaces; and the paths   *)
(*    Examples;                                                            *)
(*  - the strings RawExamples and DecimalExamples.                         *)

MaxLen == 5
MaxGroups == 2

RawAlphabet == {"M", "L", "a", "e", "1", "-", ".", ","}

\* no exponent of two or more digits, so that every value fits TLC's integers
ExpFits(s) ==
  \A p \in 1..Len(s) :
    s[p] \in {"e", "E"} =>
      /\ ~(p + 2 <= Len(s) /\ IsDigit(s[p + 1]) /\ IsDigit(s[p + 2]))
      /\ ~(p + 3 <= Len(s) /\ IsSign(s[p + 1]) /\ IsDigit(s[p + 2]) /\ IsDigit(s[p + 3]))

\* strings of adjacent numbers without separators
RawExamples ==
  { <<"M", "1", ".", "5", ".", "5">>, <<"M", "1", "-", "2">>,
    <<"L", "1", "e", "1", "e", "1">>, <<"M", " ", ",", "+", "2", "E", "1", "-", "3">> }

\* paths with decimal arguments, whose sums, products and reflections are
\* rounded
DecimalExamples ==
  { <<"m", ".", "1", ",", ".", "2", " ", "l", ".", "2", ",", ".", "1">>,
    <<"M", "1", ".", "1", ",", ".", "7", " ", "h", ".", "1", " ", "v", ".", "2">>,
    <<"m", ".", "1", ",", ".", "3", " ", "c", ".", "1", ",", ".", "2", ",", ".", "3", ",", ".", "4", ",", ".", "7", ",", ".", "1", " ", "s", "1", ".", "1", ",", ".", "3", ",", ".", "2", ",", ".", "6", " ", ".", "1", ",", ".", "1", ",", ".", "3", ",", ".", "7">>,
    <<"M", ".", "3", ",", ".", "1", " ", "q", ".", "1", ",", ".", "2", ",", ".", "7", ",", ".", "1", " ", "t", ".", "3", ",", ".", "6", " ", ".", "1", ",", ".", "2">>,
    <<"M", ".", "1", ",", ".", "7", " ", "l", ".", "7", ",", ".", "1", " ", "Z">> }

RawInputs ==
  {s \in UNION {[1..n -> RawAlphabet] : n \in 0..MaxLen} : ExpFits(s)}

GroupLetters ==
  {"M", "m", "L", "l", "H", "h", "V", "v", "C", "c", "S", "s", "Q", "q",
   "T", "t", "Z", "X", "A", ""}

\* the number of arguments of one group of command C
Arity(C) ==
  CASE C \in {"H", "V"} -> 1
    [] C \in {"C"} -> 6
    [] C \in {"S", "Q"} -> 4
    [] C \in {"Z", "A"} -> 0
    [] OTHER -> 2

ArgTable ==
  << <<3, 0, 3, 4, -1, 4>>, <<-2, 5, 0, 12, 1, -3>>, <<1, 2, -4, -1, 6, 3>> >>

ArgRow(g, seed) == ArgTable[((g + seed) % Len(ArgTable)) + 1]

\* the command in force for group g of the letter sequence ls
RECURSIVE InForce(_, _)
InForce(ls, g) ==
  IF g = 0 THEN ""
  ELSE IF ls[g] # "" THEN ls[g] ELSE InForce(ls, g - 1)

GroupsOf(ls, seed) ==
  [g \in 1..Len(ls) |->
     [cmd  |-> ls[g],
      args |-> SubSeq(ArgRow(g, seed), 1, Arity(toUpperCase(InForce(ls, g))))]]

G(c, a) == [cmd |-> c, args |-> a]

Examples ==
  { <<G("M", <<0, 0>>), G("L", <<10, 0>>), G("L", <<10, 10>>), G("Z", << >>)>>,
    <<G("M", <<0, 0>>), G("l", <<10, 0>>), G("l", <<0, 10>>)>>,
    <<G("M", <<0, 0>>), G("L", <<10, 0>>), G("L", <<10, 10>>)>>,
    <<G("M", <<0, 0>>), G("C", <<10, 0, 10, 10, 0, 10>>), G("S", <<-10, 20, 0, 30>>)>>,
    <<G("M", <<1, 1>>)>>,
    <<G("M", <<0, 0>>), G("L", <<10, 10>>), G("", <<20, 20>>), G("", <<30, 30>>)>>,
    <<G("M", <<0, 0>>), G("L", << >>)>>,
    <<G("M", <<0, 0>>), G("C", <<1, 1, 2, 2, 3, 3>>), G("X", << >>), G("S", <<4, 4, 5, 5>>)>>,
    <<G("M", <<0, 0>>), G("Q", <<1, 1, 2, 2>>), G("X", << >>), G("T", <<4, 4>>)>>,
    <<G("m", <<1, 2>>), G("c", <<1, 0, 2, 3, 4, 1>>), G("s", <<2, 2, 3, -1>>), G("", <<1, 4, -2, 5>>)>>,
    <<G("m", <<1, 2>>), G("q", <<1, 0, 2, 3>>), G("t", <<2, 2>>), G("", <<1, 4>>)>>,
    <<G("M", <<2, 1>>), G("h", <<3>>), G("", <<-1>>), G("v", <<2>>), G("", <<5>>)>>,
    <<G("m", <<1, 2>>), G("", <<3, 4>>), G("", <<-2, 5>>)>>,
    <<G("M", <<0, 0>>), G("C", <<1, 1, 2, 2, 3, 3>>), G("Z", << >>)>> }

GeneratedPaths ==
  {GroupsOf(ls, seed) :
     ls \in UNION {[1..n -> GroupLetters] : n \in 1..MaxGroups},
     seed \in 1..Len(ArgTable)}

Paths == GeneratedPaths \cup Examples

\* decimal printing of an integer
RECURSIVE NatStr(_)
NatStr(n) ==
  IF n < 10 THEN <<Digits[n + 1]>> ELSE NatStr(n \div 10) \o <<Digits[(n % 10) + 1]>>

NumStr(n) == IF n < 0 THEN <<"-">> \o NatStr(-n) ELSE NatStr(n)

RECURSIVE ArgsStr(_)
ArgsStr(a) ==
  IF Len(a) = 0 THEN << >>
  ELSE IF Len(a) = 1 THEN NumStr(a[1])
  ELSE NumStr(a[1]) \o <<",">> \o ArgsStr(Tail(a))

GroupStr(g) == (IF g.cmd = "" THEN << >> ELSE <<g.cmd>>) \o ArgsStr(g.args)

RECURSIVE Render(_)
Render(gs) ==
  IF Len(gs) = 0 THEN << >>
  ELSE IF Len(gs) = 1 THEN GroupStr(gs[1])
  ELSE GroupStr(gs[1]) \o <<" ">> \o Render(Tail(gs))

OptsSet ==
  { Identity,
    [scaleX |-> Num(2), scaleY |-> Num(3), flipY |-> TRUE,
     offsetX |-> Num(5), offsetY |-> Num(7)],
    [scaleX |-> Num(3), scaleY |-> Num(2), flipY |-> FALSE,
     offsetX |-> Num(-1), offsetY |-> Num(4)] }

---------------------------------------------------------------------------
(* The state machine *)

Become(s) ==
  /\ i' = s.i /\ cx' = s.cx /\ cy' = s.cy /\ sx' = s.sx /\ sy' = s.sy
  /\ prevCmd' = s.prevCmd
  /\ pcx' = s.pcx /\ pcy' = s.pcy /\ pqx' = s.pqx /\ pqy' = s.pqy
  /\ path' = s.path /\ pc' = s.pc /\ err' = s.err /\ iters' = s.iters
  /\ UNCHANGED <<d, opts, groups>>

StartsAs(s, o, gs) ==
  /\ d = s /\ opts = o /\ groups = gs
  /\ i = 0 /\ cx = Num(0) /\ cy = Num(0) /\ sx = Num(0) /\ sy = Num(0)
  /\ prevCmd = ""
  /\ pcx = Null /\ pcy = Null /\ pqx = Null /\ pqy = Null
  /\ path = << >> /\ pc = "cmd" /\ err = "none" /\ iters = 0

Init ==
  \/ \E s \in RawInputs \cup RawExamples : StartsAs(s, Identity, << >>)
  \/ \E s \in DecimalExamples, o \in OptsSet : StartsAs(s, o, << >>)
  \/ \E gs \in Paths, o \in OptsSet : StartsAs(Render(gs), o, gs)

\* An iteration of the parse loop that ends consumes a character of the
\* input, or it is taken with the cursor and prevCmd unchanged after an
\* unhandled letter, and then every later iteration is the same and the call
\* never ends.  A call on s that ends makes at most Len(s) + 1 iterations; the
\* loop is followed one iteration further than that and no more.
IterCap(s) == Len(s) + 2

Handled == {"M", "L", "H", "V", "C", "S", "Q", "T", "Z", "A"}

ReturnPath ==
  /\ pc = "cmd" /\ Entry(State).cmd = ""
  /\ Become(Return(State))

CommandM ==
  /\ pc = "cmd" /\ UpperC(State) = "M"
  /\ Become(BranchM(State))

ImplicitLineAfterM ==
  /\ pc = "grp" /\ UpperC(State) = "M"
  /\ Become(BranchL(State))

CommandL ==
  /\ pc \in {"cmd", "grp"} /\ UpperC(State) = "L"
  /\ Become(BranchL(State))

CommandH ==
  /\ pc \in {"cmd", "grp"} /\ UpperC(State) = "H"
  /\ Become(BranchH(State))

CommandV ==
  /\ pc \in {"cmd", "grp"} /\ UpperC(State) = "V"
  /\ Become(BranchV(State))

CommandC ==
  /\ pc \in {"cmd", "grp"} /\ UpperC(State) = "C"
  /\ Become(BranchC(State))

CommandS ==
  /\ pc \in {"cmd", "grp"} /\ UpperC(State) = "S"
  /\ Become(BranchS(State))

CommandQ ==
  /\ pc \in {"cmd", "grp"} /\ UpperC(State) = "Q"
  /\ Become(BranchQ(State))

CommandT ==
  /\ pc \in {"cmd", "grp"} /\ UpperC(State) = "T"
  /\ Become(BranchT(State))

CommandZ ==
  /\ pc = "cmd" /\ UpperC(State) = "Z"
  /\ Become(BranchZ(State))

CommandA ==
  /\ pc = "cmd" /\ UpperC(State) = "A"
  /\ Become(BranchA(State))

OtherCommand ==
  /\ pc = "cmd" /\ Entry(State).cmd # "" /\ UpperC(State) \notin Handled
  /\ iters < IterCap(d)
  /\ Become(FallThrough(State))

Next ==
  \/ ReturnPath
  \/ CommandM
  \/ ImplicitLineAfterM
  \/ CommandL
  \/ CommandH
  \/ CommandV
  \/ CommandC
  \/ CommandS
  \/ CommandQ
  \/ CommandT
  \/ CommandZ
  \/ CommandA
  \/ OtherCommand

Spec == Init /\ [][Next]_vars

---------------------------------------------------------------------------
(* The whole call as a function of its arguments *)

\* one step of the parse loop, as Next takes it
Step(s) ==
  IF s.pc = "cmd" /\ Entry(s).cmd = "" THEN Return(s)
  ELSE CASE UpperC(s) = "M" -> IF s.pc = "cmd" THEN BranchM(s) ELSE BranchL(s)
         [] UpperC(s) = "L" -> BranchL(s)
         [] UpperC(s) = "H" -> BranchH(s)
         [] UpperC(s) = "V" -> BranchV(s)
         [] UpperC(s) = "C" -> BranchC(s)
         [] UpperC(s) = "S" -> BranchS(s)
         [] UpperC(s) = "Q" -> BranchQ(s)
         [] UpperC(s) = "T" -> BranchT(s)
         [] UpperC(s) = "Z" -> BranchZ(s)
         [] UpperC(s) = "A" -> BranchA(s)
         [] OTHER -> FallThrough(s)

RECURSIVE Run(_)
Run(s) ==
  IF s.pc \in {"done", "error"} \/ s.iters >= IterCap(s.d) THEN s ELSE Run(Step(s))

\* what the caller gets: the returned array, or the error thrown
Result(s) ==
  IF s.pc = "done" THEN [returned |-> TRUE, path |-> s.path, err |-> "none"]
  ELSE [returned |-> FALSE, path |-> << >>, err |-> s.err]

svgPathToArray(str, o) == Result(Run(Start(str, o)))

Finished == pc \in {"done", "error"}

---------------------------------------------------------------------------
(* Properties *)

Last(p) == p[Len(p)]

\* this step pushed one record
Emitted == Len(path') = Len(path) + 1

Coordinates(rec) == {rec[f] : f \in DOMAIN rec \ {"t"}}

ContainsArc(s) == \E k \in 1..Len(s) : s[k] \in {"A", "a"}

\* the Close record of the data model: a tag and no coordinates
cmdClose == [t |-> "Z"]

SquareExample ==
  <<G("M", <<0, 0>>), G("L", <<10, 0>>), G("L", <<10, 10>>), G("Z", << >>)>>

\* C1: once a Z or z command has been taken, the last record of the output
\* is a Close, the current point is the subpath-start point, both reflection
\* anchors are null and no error was raised; and "M0,0 L10,0 L10,10 Z" under
\* the identity transform returns [Move(0,0), Line(10,0), Line(10,10), Close].
C1_CloseAppendsRecord ==
  /\ toUpperCase(prevCmd) = "Z" =>
       /\ err = "none"
       /\ Len(path) > 0 /\ Last(path) = cmdClose
       /\ cx = sx /\ cy = sy
       /\ pcx = Null /\ pcy = Null /\ pqx = Null /\ pqy = Null
  /\ (d = Render(SquareExample) /\ opts = Identity /\ Finished) =>
       Result(State) =
         [returned |-> TRUE, err |-> "none",
          path |-> <<cmdMove(Num(0), Num(0)), cmdLine(Num(10), Num(0)),
                     cmdLine(Num(10), Num(10)), cmdClose>>]

\* C2: the parse loop runs at most once per character of the input, plus the
\* iteration that finds the input exhausted.
C2_LoopBoundedByLength == iters <= Len(d) + 1

\* C3: an input that contains A or a never returns, and when it fails it
\* fails with the arc error.
C3_ArcAlwaysRejected ==
  ContainsArc(d) =>
    /\ pc # "done"
    /\ pc = "error" => err = ArcNotSupported

\* C4: no record with a non-numeric (NaN) coordinate is ever emitted.
C4_NoNaNCoordinate ==
  \A k \in 1..Len(path) : \A v \in Coordinates(path[k]) : ~IsNaN(v)

\* C5: at a normal return only separators remain after the cursor.
C5_ReturnsOnlyAtEnd == pc = "done" => skipSpaces(d, i) = Len(d)

\* C6: an S group taken right after a command other than C/c/S/s emits a
\* cubic whose first control point is the current point, and a T group
\* taken right after a command other than Q/q/T/t emits a quadratic whose
\* control point is the current point.
C6_ShorthandFallback ==
  [][ /\ ( /\ pc = "cmd" /\ UpperC(State) = "S"
           /\ toUpperCase(prevCmd) \notin {"C", "S"}
           /\ Emitted )
         => /\ Last(path').cx = TX(opts, cx)
            /\ Last(path').cy = TY(opts, cy)
      /\ ( /\ pc = "cmd" /\ UpperC(State) = "T"
           /\ toUpperCase(prevCmd) \notin {"Q", "T"}
           /\ Emitted )
         => /\ Last(path').cx = TX(opts, cx)
            /\ Last(path').cy = TY(opts, cy)
    ]_vars

ReflectionExample ==
  <<G("M", <<0, 0>>), G("C", <<10, 0, 10, 10, 0, 10>>), G("S", <<-10, 20, 0, 30>>)>>

Twice(a) == NumMul(Num(2), a)

\* C7: an S group that directly follows a C/c or S/s group (a later group of
\* the same S run included) emits a cubic whose first control point is, in
\* model space, 2*(current point) - (second control point of the preceding
\* cubic), and a T group that directly follows a Q/q or T/t group emits a
\* quadratic whose control point is 2*(current point) - (control point of
\* the preceding quadratic).  The preceding record holds the transforms of
\* these two points; under the identity transform the relation is one
\* between the two records.  "M0,0 C10,0 10,10 0,10 S-10,20 0,30" gives a
\* second cubic with first control point (-10,10).
C7_ShorthandReflection ==
  [][ /\ ( /\ UpperC(State) = "S"
           /\ pc = "grp" \/ (pc = "cmd" /\ toUpperCase(prevCmd) \in {"C", "S"})
           /\ Emitted )
         => /\ Last(path).t = "C" /\ Last(path').t = "C"
            /\ Last(path).x = TX(opts, cx) /\ Last(path).y = TY(opts, cy)
            /\ Last(path).cx2 = TX(opts, pcx) /\ Last(path).cy2 = TY(opts, pcy)
            /\ Last(path').cx = TX(opts, NumSub(Twice(cx), pcx))
            /\ Last(path').cy = TY(opts, NumSub(Twice(cy), pcy))
            /\ opts = Identity =>
                 /\ Last(path').cx = NumSub(Twice(Last(path).x), Last(path).cx2)
                 /\ Last(path').cy = NumSub(Twice(Last(path).y), Last(path).cy2)
      /\ ( /\ UpperC(State) = "T"
           /\ pc = "grp" \/ (pc = "cmd" /\ toUpperCase(prevCmd) \in {"Q", "T"})
           /\ Emitted )
         => /\ Last(path).t = "Q" /\ Last(path').t = "Q"
            /\ Last(path).x = TX(opts, cx) /\ Last(path).y = TY(opts, cy)
            /\ Last(path).cx = TX(opts, pqx) /\ Last(path).cy = TY(opts, pqy)
            /\ Last(path').cx = TX(opts, NumSub(Twice(cx), pqx))
            /\ Last(path').cy = TY(opts, NumSub(Twice(cy), pqy))
            /\ opts = Identity =>
                 /\ Last(path').cx = NumSub(Twice(Last(path).x), Last(path).cx)
                 /\ Last(path').cy = NumSub(Twice(Last(path).y), Last(path).cy)
      /\ (d = Render(ReflectionExample) /\ opts = Identity /\ pc' = "done")
         => /\ Len(path') = 3
            /\ path'[3].cx = Num(-10) /\ path'[3].cy = Num(10)
    ]_vars

\* an S group reflected the second control point of the cubic before it,
\* and a T group the control point of the quadratic before it, to a point
\* other than the current point
C7_Witness ==
  /\ Len(path) >= 2
  /\ \/ /\ toUpperCase(prevCmd) = "S"
        /\ path[Len(path) - 1].t = "C"
        /\ Last(path).cx = NumSub(Twice(path[Len(path) - 1].x), path[Len(path) - 1].cx2)
        /\ Last(path).cx # path[Len(path) - 1].x
     \/ /\ toUpperCase(prevCmd) = "T"
        /\ path[Len(path) - 1].t = "Q"
        /\ Last(path).cx = NumSub(Twice(path[Len(path) - 1].x), path[Len(path) - 1].cx)
        /\ Last(path).cx # path[Len(path) - 1].x
  /\ pc = "done"

---------------------------------------------------------------------------
(* The same path written with absolute commands *)

RelativeLetters == {"m", "l", "h", "v", "c", "s", "q", "t"}

\* the arguments of a relative group, each plus the current point cur
AbsoluteArgs(C, a, cur) ==
  CASE C = "H" -> [k \in 1..Len(a) |-> a[k] + cur[1]]
    [] C = "V" -> [k \in 1..Len(a) |-> a[k] + cur[2]]
    [] OTHER   -> [k \in 1..Len(a) |-> a[k] + (IF k % 2 = 1 THEN cur[1] ELSE cur[2])]

\* the current point after a group with absolute arguments a
PointAfter(C, a, cur, start) ==
  CASE C = "Z" -> start
    [] C = "H" /\ Len(a) = 1 -> <<a[1], cur[2]>>
    [] C = "V" /\ Len(a) = 1 -> <<cur[1], a[1]>>
    [] C \in {"M", "L", "C", "S", "Q", "T"} /\ Len(a) = Arity(C)
         -> <<a[Len(a) - 1], a[Len(a)]>>
    [] OTHER -> cur

RECURSIVE AbsoluteFrom(_, _, _, _, _)
AbsoluteFrom(gs, g, inForce, cur, start) ==
  IF g > Len(gs) THEN << >>
  ELSE LET eff == IF gs[g].cmd # "" THEN gs[g].cmd ELSE inForce
           C   == toUpperCase(eff)
           a   == IF eff \in RelativeLetters THEN AbsoluteArgs(C, gs[g].args, cur)
                  ELSE gs[g].args
           pt  == PointAfter(C, a, cur, start)
       IN  <<[cmd |-> toUpperCase(gs[g].cmd), args |-> a]>>
             \o AbsoluteFrom(gs, g + 1, eff, pt,
                             IF C = "M" /\ gs[g].cmd # "" THEN pt ELSE start)

Absolute(gs) == AbsoluteFrom(gs, 1, "", <<0, 0>>, <<0, 0>>)

HasRelative(gs) == \E g \in 1..Len(gs) : gs[g].cmd \in RelativeLetters

\* C8: a path and the same path written with absolute commands, each
\* relative argument replaced by that argument plus the current point at the
\* start of its group, give the same result under the same transform.
C8_RelativeEqualsAbsolute ==
  (groups # << >> /\ Finished) =>
    svgPathToArray(Render(Absolute(groups)), opts) = Result(State)

\* a path with relative commands, whose absolute form is another string,
\* returned two records or more
C8_Witness ==
  /\ pc = "done" /\ Len(path) >= 2
  /\ HasRelative(groups)
  /\ Render(Absolute(groups)) # d
  /\ svgPathToArray(Render(Absolute(groups)), opts) = Result(State)

---------------------------------------------------------------------------
(* The transform of the claim, written out *)

AffineX(o, x) == NumAdd(o.offsetX, NumMul(o.scaleX, x))
AffineY(o, y) ==
  NumAdd(o.offsetY, NumMul(IF o.flipY THEN NumNeg(o.scaleY) ELSE o.scaleY, y))

Transformed(o, rec) ==
  [f \in DOMAIN rec |->
     IF f = "t" THEN rec[f]
     ELSE IF f \in {"x", "cx", "cx2"} THEN AffineX(o, rec[f])
     ELSE AffineY(o, rec[f])]

TransformedResult(o, r) ==
  [returned |-> r.returned, err |-> r.err,
   path |-> [k \in 1..Len(r.path) |-> Transformed(o, r.path[k])]]

FlipExample ==
  [scaleX |-> Num(2), scaleY |-> Num(3), flipY |-> TRUE,
   offsetX |-> Num(5), offsetY |-> Num(7)]

\* C9: the result under a transform is the result of the same input under
\* the identity transform with x' = offsetX + scaleX*x and
\* y' = offsetY + (flipY ? -scaleY*y : scaleY*y) applied to every endpoint
\* and control point; "M1,1" with scaleX=2, scaleY=3, flipY, offsetX=5,
\* offsetY=7 returns [Move(7,4)].
C9_TransformOnlyAtEmit ==
  /\ Finished =>
       Result(State) = TransformedResult(opts, svgPathToArray(d, Identity))
  /\ (d = <<"M", "1", ",", "1">> /\ opts = FlipExample /\ Finished) =>
       Result(State) = [returned |-> TRUE, err |-> "none",
                        path |-> <<cmdMove(Num(7), Num(4))>>]

\* a path with relative commands returned two records or more under a
\* transform that moves them
C9_Witness ==
  /\ pc = "done" /\ Len(path) >= 2
  /\ opts # Identity
  /\ HasRelative(groups)
  /\ path # svgPathToArray(d, Identity).path

---------------------------------------------------------------------------
(* The same path with every repeated command letter written out *)

Repeating == {"L", "H", "V", "C", "S", "Q", "T"}

Letters(gs) == [g \in 1..Len(gs) |-> gs[g].cmd]

\* group g is an implicit repetition of one of L, H, V, C, S, Q, T
IsRepetition(gs, g) ==
  gs[g].cmd = "" /\ toUpperCase(InForce(Letters(gs), g)) \in Repeating

Explicit(gs) ==
  [g \in 1..Len(gs) |->
     [cmd  |-> IF IsRepetition(gs, g) THEN InForce(Letters(gs), g) ELSE gs[g].cmd,
      args |-> gs[g].args]]

\* the kind of record a group of command C emits
KindOf(C) ==
  CASE C \in {"L", "H", "V"} -> "L"
    [] C \in {"C", "S"} -> "C"
    [] C \in {"Q", "T"} -> "Q"
    [] OTHER -> C

\* every group is a group of L, H, V, C, S, Q or T, written or repeated
OnlyRepeating(gs) ==
  \A g \in 1..Len(gs) : toUpperCase(InForce(Letters(gs), g)) \in Repeating

RepetitionExample ==
  <<G("M", <<0, 0>>), G("L", <<10, 10>>), G("", <<20, 20>>), G("", <<30, 30>>)>>

\* C10: argument groups written after a single letter of L, H, V, C, S, Q, T
\* give the result of the path with the letter written before every group;
\* a returned path of k such groups has k records, the g-th of the kind of
\* the g-th group's command; "M0,0 L10,10 20,20 30,30" returns a Move and
\* three Lines.
C10_ImplicitRepetition ==
  /\ (groups # << >> /\ Finished) =>
       svgPathToArray(Render(Explicit(groups)), opts) = Result(State)
  /\ (groups # << >> /\ pc = "done" /\ OnlyRepeating(groups)) =>
       /\ Len(path) = Len(groups)
       /\ \A g \in 1..Len(groups) :
            path[g].t = KindOf(toUpperCase(InForce(Letters(groups), g)))
  /\ (d = Render(RepetitionExample) /\ opts = Identity /\ Finished) =>
       Result(State) =
         [returned |-> TRUE, err |-> "none",
          path |-> <<cmdMove(Num(0), Num(0)), cmdLine(Num(10), Num(10)),
                     cmdLine(Num(20), Num(20)), cmdLine(Num(30), Num(30))>>]

\* a returned path whose last group is a repetition of a relative command
C10_Witness ==
  /\ pc = "done" /\ groups # << >>
  /\ OnlyRepeating(groups)
  /\ IsRepetition(groups, Len(groups))
  /\ InForce(Letters(groups), Len(groups)) \in RelativeLetters
  /\ Len(path) = Len(groups)
  /\ Render(Explicit(groups)) # d

---------------------------------------------------------------------------
(* Paths of complete argument groups *)

Emitting == {"M", "L", "H", "V", "C", "S", "Q", "T"}

\* the command in force for group g of the path gs
ForceOf(gs, g) == InForce(Letters(gs), g)

\* group g is a group of one of the nine families with all its arguments; no
\* arguments follow a Z
Complete(gs, g) ==
  /\ toUpperCase(ForceOf(gs, g)) \in Emitting \cup {"Z"}
  /\ Len(gs[g].args) = Arity(toUpperCase(ForceOf(gs, g)))
  /\ gs[g].cmd = "" => toUpperCase(ForceOf(gs, g)) # "Z"

\* a valid path of the nine families that starts with M or m
ValidPath(gs) ==
  /\ Len(gs) >= 1 /\ gs[1].cmd \in {"M", "m"}
  /\ \A g \in 1..Len(gs) : Complete(gs, g)

\* C11: a valid path that uses only M/L/H/V/C/S/Q/T/Z in any case, with any
\* repetition, and starts with M or m is parsed to the end without an error,
\* and the first record returned is a Move.
C11_ValidPathParses ==
  (groups # << >> /\ ValidPath(groups) /\ Finished) =>
    /\ pc = "done" /\ err = "none"
    /\ Len(path) >= 1 /\ path[1].t = "M"

\* the groups 1..n of gs each emit one record
AllEmitting(gs, n) ==
  \A g \in 1..n :
    /\ toUpperCase(ForceOf(gs, g)) \in Emitting
    /\ Len(gs[g].args) = Arity(toUpperCase(ForceOf(gs, g)))

\* the group the next step takes, when every group so far emitted a record
ThisGroup == Len(path) + 1

AtGroupOf(Cs) ==
  /\ groups # << >> /\ ThisGroup <= Len(groups)
  /\ AllEmitting(groups, ThisGroup)
  /\ toUpperCase(ForceOf(groups, ThisGroup)) \in Cs

\* the k-th argument of the group the next step takes, against base
ArgFrom(k, base) ==
  IF ForceOf(groups, ThisGroup) \in RelativeLetters
    THEN NumAdd(base, Num(groups[ThisGroup].args[k]))
    ELSE Num(groups[ThisGroup].args[k])

\* C12: of the coordinate pairs after an M or m, the first emits a Move and
\* sets the subpath-start point to the new current point; every further pair
\* emits a Line to the new current point and leaves the subpath-start point
\* unchanged; after m every pair, the further ones included, is relative to
\* the current point left by the pair before it.
C12_MoveThenLines ==
  [][ AtGroupOf({"M"}) =>
        /\ Emitted
        /\ cx' = ArgFrom(1, cx) /\ cy' = ArgFrom(2, cy)
        /\ IF groups[ThisGroup].cmd # ""
             THEN /\ Last(path') = cmdMove(TX(opts, cx'), TY(opts, cy'))
                  /\ sx' = cx' /\ sy' = cy'
             ELSE /\ Last(path') = cmdLine(TX(opts, cx'), TY(opts, cy'))
                  /\ sx' = sx /\ sy' = sy
    ]_vars

MoveExample == <<G("m", <<1, 2>>), G("", <<3, 4>>), G("", <<-2, 5>>)>>

\* "m1,2 3,4 -2,5" returned a Move and two Lines: the subpath starts at
\* (1,2) and the current point is (1+3-2, 2+4+5)
C12_Witness ==
  /\ pc = "done" /\ groups = MoveExample
  /\ Len(path) = 3 /\ path[1].t = "M" /\ path[2].t = "L" /\ path[3].t = "L"
  /\ sx = Num(1) /\ sy = Num(2) /\ cx = Num(2) /\ cy = Num(11)
  /\ path[3] = cmdLine(TX(opts, Num(2)), TY(opts, Num(11)))

HVExample ==
  <<G("M", <<2, 1>>), G("h", <<3>>), G("", <<-1>>), G("v", <<2>>), G("", <<5>>)>>

\* C13: every group of H or h, a repeated one included, emits a Line at the
\* y of the current point before the group and leaves that y unchanged; every
\* group of V or v emits a Line at the x of the current point before the
\* group and leaves that x unchanged.  The other coordinate is the group's
\* argument, plus the current point's for h and v.
C13_HorizontalVerticalHold ==
  [][ /\ AtGroupOf({"H"}) =>
           /\ Emitted /\ Last(path').t = "L"
           /\ cy' = cy /\ Last(path').y = TY(opts, cy)
           /\ cx' = ArgFrom(1, cx) /\ Last(path').x = TX(opts, cx')
      /\ AtGroupOf({"V"}) =>
           /\ Emitted /\ Last(path').t = "L"
           /\ cx' = cx /\ Last(path').x = TX(opts, cx)
           /\ cy' = ArgFrom(1, cy) /\ Last(path').y = TY(opts, cy')
    ]_vars

\* "M2,1 h3 -1 v2 5" returned Lines to (5,1), (4,1), (4,3), (4,8)
C13_Witness ==
  /\ pc = "done" /\ groups = HVExample /\ Len(path) = 5
  /\ path[2] = cmdLine(TX(opts, Num(5)), TY(opts, Num(1)))
  /\ path[3] = cmdLine(TX(opts, Num(4)), TY(opts, Num(1)))
  /\ path[4] = cmdLine(TX(opts, Num(4)), TY(opts, Num(3)))
  /\ path[5] = cmdLine(TX(opts, Num(4)), TY(opts, Num(8)))
  /\ cx = Num(4) /\ cy = Num(8)

\* the argument positions of the end point of a group of command C
EndArgs(C) ==
  CASE C \in {"C"} -> <<5, 6>>
    [] C \in {"S", "Q"} -> <<3, 4>>
    [] OTHER -> <<1, 2>>

\* C14: after every group that emits a record the current point is the
\* model-space end point of that record (the record holds its transform),
\* and the group after it, when it repeats a relative command, is resolved
\* against that point: its end point is the current point plus the group's
\* end-point arguments.
C14_CurrentPointIsEndpoint ==
  [][ /\ Emitted =>
           /\ Last(path').x = TX(opts, cx')
           /\ Last(path').y = TY(opts, cy')
      /\ ( /\ AtGroupOf(Emitting \ {"H", "V"})
           /\ groups[ThisGroup].cmd = ""
           /\ ForceOf(groups, ThisGroup) \in RelativeLetters )
         => /\ Emitted
            /\ cx' = NumAdd(cx, Num(groups[ThisGroup].args[
                       EndArgs(toUpperCase(ForceOf(groups, ThisGroup)))[1]]))
            /\ cy' = NumAdd(cy, Num(groups[ThisGroup].args[
                       EndArgs(toUpperCase(ForceOf(groups, ThisGroup)))[2]]))
    ]_vars

CubicRunExample ==
  <<G("m", <<1, 2>>), G("c", <<1, 0, 2, 3, 4, 1>>), G("s", <<2, 2, 3, -1>>),
    G("", <<1, 4, -2, 5>>)>>

\* "m1,2 c1,0,2,3,4,1 s2,2,3,-1 1,4,-2,5" returned four records, the last
\* the repeated s group, resolved against (8,2): it ends at (6,7)
C14_Witness ==
  /\ pc = "done" /\ groups = CubicRunExample /\ Len(path) = 4
  /\ path[3].x = TX(opts, Num(8)) /\ path[3].y = TY(opts, Num(2))
  /\ cx = Num(6) /\ cy = Num(7)
  /\ path[4].x = TX(opts, Num(6)) /\ path[4].y = TY(opts, Num(7))
  /\ path[4].cx2 = TX(opts, Num(9)) /\ path[4].cy2 = TY(opts, Num(6))

---------------------------------------------------------------------------
(* The number token, stated on the characters *)

IsExpMark(ch) == ch \in {"e", "E"}

\* the characters s[a+1..b] are: an optional sign, then digits, at most one
\* decimal point and at most one exponent marker, which a sign may follow
NumberToken(s, a, b) ==
  \A p \in (a + 1)..b :
    \/ IsDigit(s[p])
    \/ s[p] = "." /\ \A q \in (a + 1)..(p - 1) : s[q] # "."
    \/ IsExpMark(s[p]) /\ \A q \in (a + 1)..(p - 1) : ~IsExpMark(s[q])
    \/ IsSign(s[p]) /\ (p = a + 1 \/ IsExpMark(s[p - 1]))

\* the end of the longest number token that starts at a
TokenEnd(s, a) ==
  CHOOSE b \in a..Len(s) :
    NumberToken(s, a, b) /\ (b = Len(s) \/ ~NumberToken(s, a, b + 1))

\* the first position from j on that holds no separator
AfterSeparators(s, j) ==
  CHOOSE a \in j..Len(s) :
    /\ \A q \in (j + 1)..a : IsSeparator(s[q])
    /\ a = Len(s) \/ ~IsSeparator(s[a + 1])

\* r, what readNumber has consumed when it throws or calls parseFloat, is
\* the longest number token that starts at a: r throws exactly when the
\* token is empty
ReadsTokenTo(s, a, b, r) ==
  /\ r.i = b
  /\ r.ok <=> b > a
  /\ r.ok => r.str = SubSeq(s, a + 1, b)

ReadsToken(s, a, r) == ReadsTokenTo(s, a, TokenEnd(s, a), r)

\* C15: from any cursor of the input of a call, readNumber skips the separators and consumes the
\* longest run of an optional leading sign, digits, at most one decimal point
\* and at most one exponent marker with an optional sign: it stops before a
\* second decimal point, a second exponent marker or an inner sign.  It
\* throws exactly when that run is empty.  Adjacent numbers are split:
\* "M1.5.5" gives Move(1.5, 0.5) and "M1-2" gives Move(1, -2).
C15_NumberToken ==
  /\ iters = 0 => \A j \in 0..Len(d) :
       ReadsToken(d, AfterSeparators(d, j), readNumberScan(d, skipSpaces(d, j)))
  /\ (d = <<"M", "1", ".", "5", ".", "5">> /\ Finished) =>
       Result(State) = [returned |-> TRUE, err |-> "none",
                        path |-> <<cmdMove(Decimal(15, 1), Decimal(5, 1))>>]
  /\ (d = <<"M", "1", "-", "2">> /\ Finished) =>
       Result(State) = [returned |-> TRUE, err |-> "none",
                        path |-> <<cmdMove(Num(1), Num(-2))>>]

\* "M1.5.5" returned Move(1.5, 0.5): the second number starts at the second
\* decimal point
C15_Witness ==
  /\ pc = "done" /\ d = <<"M", "1", ".", "5", ".", "5">>
  /\ path = <<cmdMove(Decimal(15, 1), Decimal(5, 1))>>
  /\ readNumber(d, 1).i = 4 /\ readNumber(d, 4).i = 6

\* C16: the cursor stays within 0..length of the input and no step moves it
\* back, neither a step of the parse loop nor, from the cursor on, a call of
\* skipSpaces, readNumber or readCommand.
C16_CursorMonotone ==
  [][ /\ 0 <= i /\ i <= i' /\ i' <= Len(d)
      /\ \A j \in i..Len(d) :
           /\ skipSpaces(d, j) \in j..Len(d)
           /\ readNumber(d, j).i \in j..Len(d)
           /\ readCommand(d, j, prevCmd).i \in j..Len(d)
    ]_vars

\* a path of five characters or more was read to its end
C16_Witness ==
  /\ pc = "done" /\ i = Len(d) /\ Len(d) >= 5 /\ Len(path) >= 2

\* C17: taking a command letter that is none of M, L, H, V, C, S, Q, T, Z, A
\* throws nothing, emits nothing and leaves the current point, the subpath
\* start and both reflection anchors as they were; the previous-command
\* letter becomes that letter and the cursor moves past it.
C17_UnknownLetterIgnored ==
  [][ ( /\ pc = "cmd" /\ Entry(State).cmd # ""
        /\ UpperC(State) \notin Handled )
      => /\ pc' = "cmd" /\ err' = "none"
         /\ path' = path
         /\ cx' = cx /\ cy' = cy /\ sx' = sx /\ sy' = sy
         /\ pcx' = pcx /\ pcy' = pcy /\ pqx' = pqx /\ pqy' = pqy
         /\ prevCmd' = Entry(State).cmd
         /\ i' = Entry(State).i
    ]_vars

\* the letter X was taken after a cubic: the cubic anchor is still set
C17_Witness ==
  /\ pc = "cmd" /\ prevCmd = "X" /\ err = "none"
  /\ Len(path) = 2 /\ Last(path).t = "C"
  /\ pcx # Null /\ pcy # Null
  /\ cx # sx

AnchorsNull == pcx = Null /\ pcy = Null /\ pqx = Null /\ pqy = Null

\* C18: the two reflection anchors are never both set; the cubic anchor is
\* set only when the last record emitted is a cubic, the quadratic anchor
\* only when it is a quadratic; both are null when the last record is a Move
\* or a Line, and once a Z or z command was taken.
C18_AnchorsExclusive ==
  /\ ~((pcx # Null \/ pcy # Null) /\ (pqx # Null \/ pqy # Null))
  /\ (pcx # Null \/ pcy # Null) => (Len(path) > 0 /\ Last(path).t = "C")
  /\ (pqx # Null \/ pqy # Null) => (Len(path) > 0 /\ Last(path).t = "Q")
  /\ (Len(path) > 0 /\ Last(path).t \in {"M", "L"}) => AnchorsNull
  /\ toUpperCase(prevCmd) = "Z" => AnchorsNull

=============================================================================
